---- MODULE Spec2Model ----
(***************************************************************************)
(* A model of the facial-recognition attendance client.                    *)
(*                                                                         *)
(*  - the AttendanceScreen component (src/pages/AttendanceScreen.tsx):     *)
(*    its React state, its refs, the poll interval, the setTimeout timers  *)
(*    and every async function split at its awaits;                        *)
(*  - the HTTP client's response interceptor (src/api/httpClient.ts), the  *)
(*    AuthContext provider (src/contexts/AuthContext.tsx) and the session  *)
(*    storage helpers (utils/session, src/unnamed/part_002).               *)
(*                                                                         *)
(* JavaScript runs one handler at a time: an action is one handler run up  *)
(* to its next await (or to its end), together with the React commit and   *)
(* the effects that the handler's state updates cause.  Time is Date.now() *)
(* in milliseconds and advances in steps of the poll interval, the finest  *)
(* timer of the code; a timer fires at its due time.  An await of a device *)
(* or network operation resolves after any delay.                          *)
(***************************************************************************)
EXTENDS Integers, Sequences, FiniteSets, Bags, TLC

VARIABLES
    now,        \* Date.now()
    screen,     \* the mounted AttendanceScreen: state, refs, timers, pending awaits
    osLocation, \* the OS foreground location permission is granted
    auth,       \* AuthProvider's auth state (<<>> is null)
    loading,    \* AuthProvider's loading state
    storage,    \* AsyncStorage: key -> raw text (<<>> is no item)
    logoutCallback, \* httpClient's logoutCallback is registered
    flows,      \* pending awaits of the auth flows (login, logout, requests)
    context,    \* the value AuthContext.Provider hands to useAuth()
    defaults,   \* httpClient.defaults.headers: Authorization, authorization
    drawer,     \* DrawerNavigator's isDrawerOpen and the sidebar's Logout alert
    navigation, \* screenNavigationService's navigationCallback
    presses,    \* button presses of the user so far
    last        \* history: the handler that ran last, with what it saw

vars == <<now, screen, osLocation, auth, loading, storage, logoutCallback, flows,
          context, defaults, drawer, navigation,
          presses, last>>

-----------------------------------------------------------------------------
(* Program constants (milliseconds). *)

pollIntervalMs == 1000
cooldownMs == 10000
stableFaceDelayMs == 2000
postSuccessCooldownMs == 8000
unexpectedResponseBlockMs == 6000
errorBlockMs == 10000
locationMissingBlockMs == 10000
processingReleaseDelayMs == 1000
toastLifetimeMs == 5000
toastDebounceMs == 3000

(* Bounds of the model. *)

\* clock steps explored after mount
MaxClockSteps == 5
\* clock steps explored after mount when the user leaves the loop alone
MaxLoopClockSteps == 4
\* face detections (checkForFace awaits) still unresolved when the clock moves on
MaxPendingDetect == 1
\* handleStart presses still in progress
MaxStartsPending == 1
\* fetchGeolocation calls that nobody awaits, still unresolved
MaxFetchesPending == 1
\* button presses of the user (Cancel, Retry, Start)
MaxPresses == 2

\* Date.now() at mount: an epoch time, larger than every cooldown window
StartTime == 2 * cooldownMs
\* Date.now() at the last clock step explored
Horizon == StartTime + MaxClockSteps * pollIntervalMs
LoopHorizon == StartTime + MaxLoopClockSteps * pollIntervalMs

Max(a, b) == IF a >= b THEN a ELSE b

Range(f) == {f[i] : i \in DOMAIN f}

-----------------------------------------------------------------------------
(* Values *)

\* captureTimeoutRef.current === null
NoTimeout == 0

ToastKeys == {"attendance-location-missing", "attendance-unknown",
              "attendance-error", "location-required"}
\* showToast called without a key
NoKey == "none"

\* markAttendance responses: response.data carries status and message, or not
Responses ==
    { [status |-> "Present", message |-> "Attendance marked successfully"],
      [status |-> "Already marked", message |-> "Attendance already marked"],
      [status |-> "", message |-> ""] }

\* One field of a JSON error body: a string, or a list of strings (list = TRUE)
Field(k, v) == [k |-> k, v |-> <<v>>, list |-> FALSE]
ListField(k, vs) == [k |-> k, v |-> vs, list |-> TRUE]

\* What markAttendance (or takePictureAsync) can throw: an axios error with a
\* response (HTTP status, body), or an error without a response.
HttpError(status, data) == [response |-> TRUE, status |-> status, data |-> data]
NoResponseError == [response |-> FALSE, status |-> 0, data |-> <<>>]

ErrNoFace == HttpError(400, <<Field("error", "No face detected")>>)
ErrServer == HttpError(500, <<>>)
ErrUnauthorized == HttpError(401, <<Field("detail", "Invalid token.")>>)
ErrForbidden == HttpError(403, <<Field("detail", "Forbidden"), Field("error", "Account disabled")>>)

\* JSON error bodies of the backend: up to two fields, each a string (the
\* known error strings, another one, the empty one) or a list of strings
ErrorKeys == {"error", "detail", "image"}
ErrorFields ==
    {Field(k, v) : k \in ErrorKeys,
                   v \in {"No face detected", "Face not recognized",
                          "Outside office radius", ""}}
    \cup {ListField(k, <<"No file was submitted.", "Required">>) : k \in ErrorKeys}
ErrorBodies ==
    {<<>>} \cup {<<f>> : f \in ErrorFields}
           \cup {<<p[1], p[2]>> : p \in {q \in ErrorFields \X ErrorFields : q[1].k # q[2].k}}

RequestErrors ==
    {HttpError(400, b) : b \in ErrorBodies}
    \cup {ErrServer, ErrUnauthorized, ErrForbidden, NoResponseError}
\* The failures the full attendance loop is explored with: one with a known
\* error string, one that ends the session, one without a response
LoopErrors == {ErrNoFace, ErrUnauthorized, NoResponseError}

\* A pending await: the async function, where it waits, the geolocation state
\* its closure captured, and (history) when the capture timeout it runs in was set.
Await(fn, pc, geo, armed) == [fn |-> fn, pc |-> pc, geo |-> geo, armed |-> armed]
\* A pending setTimeout timer, and (history) when it was set.
Timer(kind, id, due, geo, armed) ==
    [kind |-> kind, id |-> id, due |-> due, geo |-> geo, armed |-> armed]

MountCheck == Await("mount", "perm", FALSE, 0)
BackgroundFetch == Await("fetch", "geo", FALSE, 0)
StartPermission == Await("start", "perm", FALSE, 0)
StartFetch == Await("start", "fetch", FALSE, 0)

Put(s, f) == [s EXCEPT !.pending = @ (+) SetToBag({f})]
Take(s, f) == [s EXCEPT !.pending = @ (-) SetToBag({f})]
Count(s, S) == BagCardinality([f \in (DOMAIN s.pending) \cap S |-> s.pending[f]])
PendingOf(s, fn, pc) == {f \in BagToSet(s.pending) : f.fn = fn /\ f.pc = pc}
\* markAttendance requests sent and not yet answered
Outstanding(s) ==
    LET S == PendingOf(s, "timeout", "request")
    IN  BagCardinality([f \in S |-> s.pending[f]])

-----------------------------------------------------------------------------
(* AttendanceScreen: state after mount (camera permission granted) *)

NoInterval == [on |-> FALSE, next |-> 0, geo |-> FALSE]

InitScreen ==
    [ mounted |-> TRUE,
      \* useState
      started |-> FALSE, cameraActive |-> FALSE, stoppedState |-> "idle",
      faceDetected |-> FALSE, isProcessing |-> FALSE, geolocation |-> FALSE,
      toasts |-> <<>>,
      \* useRef
      isProcessingRef |-> FALSE, faceDetectedRef |-> FALSE,
      lastCaptureTimeRef |-> 0, nextAllowedCaptureAtRef |-> 0,
      captureTimeoutRef |-> NoTimeout,
      lastToastTimeRef |-> [k \in ToastKeys |-> 0],
      \* setInterval / setTimeout / awaits
      detectInterval |-> NoInterval,
      timeouts |-> {},
      pending |-> SetToBag({MountCheck}),
      \* history: when the last captureAndSend of this capture session started,
      \* when its last response with status and message was handled, and
      \* whether handleRetry ran and no poll tick has detected a face since
      sessionStart |-> 0, respondedAt |-> 0, retried |-> FALSE ]

\* cameraRef.current is set while the CameraView is rendered
cameraRef(s) == s.mounted /\ s.started /\ s.cameraActive

dismissAllToasts(s) == [s EXCEPT !.toasts = <<>>]

\* Mutant: removeToast that drops the toasts of every other id
removeToastOthers(s, id) ==
    [s EXCEPT !.toasts = SelectSeq(@, LAMBDA x : x.id = id)]

removeToast(s, id) ==
    [s EXCEPT !.toasts = SelectSeq(@, LAMBDA x : x.id # id)]

\* Mutant: showToast without the debounce of keyed toasts
showToastAlways(s, message, type, key, t) ==
    [s EXCEPT
        !.lastToastTimeRef =
            IF key # NoKey THEN [@ EXCEPT ![key] = t] ELSE @,
        !.toasts = Append(@, [id |-> t, message |-> message, type |-> type]),
        !.timeouts = @ \cup {Timer("toast", t, t + toastLifetimeMs, FALSE, t)}]

showToast(s, message, type, key, t) ==
    IF key # NoKey /\ s.lastToastTimeRef[key] # 0
                   /\ t - s.lastToastTimeRef[key] < toastDebounceMs
    THEN s
    ELSE [s EXCEPT
            !.lastToastTimeRef =
                IF key # NoKey THEN [@ EXCEPT ![key] = t] ELSE @,
            !.toasts = Append(@, [id |-> t, message |-> message, type |-> type]),
            !.timeouts = @ \cup {Timer("toast", t, t + toastLifetimeMs, FALSE, t)}]

\* Mutant: stopCameraWith that treats 'error' like any other reason
stopCameraWithAnyReason(s, reason) ==
    [s EXCEPT !.cameraActive = FALSE,
              !.faceDetectedRef = FALSE,
              !.faceDetected = FALSE,
              !.stoppedState = reason]

stopCameraWith(s, reason) ==
    LET c == [s EXCEPT !.cameraActive = FALSE,
                       !.faceDetectedRef = FALSE,
                       !.faceDetected = FALSE]
    IN  IF reason = "error"
        THEN [c EXCEPT !.started = FALSE, !.stoppedState = "idle"]
        ELSE [c EXCEPT !.stoppedState = reason]

releaseProcessing(s) ==
    [s EXCEPT !.isProcessingRef = FALSE, !.isProcessing = FALSE]

\* clearTimeout(captureTimeoutRef.current); captureTimeoutRef.current = null
clearCaptureTimeout(s) ==
    IF s.captureTimeoutRef # NoTimeout
    THEN [s EXCEPT
            !.timeouts = {x \in @ : ~(x.kind = "capture" /\ x.id = s.captureTimeoutRef)},
            !.captureTimeoutRef = NoTimeout]
    ELSE s

resetFaceDetected(s) ==
    [s EXCEPT !.faceDetectedRef = FALSE, !.faceDetected = FALSE]

-----------------------------------------------------------------------------
(* React effects, run at the commit that follows a handler's state updates *)

\* The face-detection effect, deps [started, cameraActive, checkForFace,
\* captureAndSend]: checkForFace changes with started and cameraActive, and
\* captureAndSend with geolocation (depsChanged: setGeolocation was called).
FaceDetectionEffect(prev, s, t, depsChanged) ==
    IF ~depsChanged /\ prev.started = s.started /\ prev.cameraActive = s.cameraActive
    THEN s
    ELSE LET \* the cleanup of the run that installed the interval
             c == IF s.detectInterval.on
                  THEN clearCaptureTimeout([s EXCEPT !.detectInterval = NoInterval])
                  ELSE s
         IN  IF ~s.started \/ ~s.cameraActive
             THEN clearCaptureTimeout(IF c.faceDetectedRef THEN resetFaceDetected(c) ELSE c)
             ELSE [c EXCEPT !.detectInterval =
                       [on |-> TRUE, next |-> t + pollIntervalMs, geo |-> s.geolocation]]

\* The auto-start effect, deps [fetchGeolocation, started]: the cleanup cancels
\* the permission check of the run before; a run with started false starts one.
AutoStartEffect(prev, s) ==
    IF prev.started = s.started
    THEN s
    ELSE LET c == [s EXCEPT !.pending =
                      [f \in (DOMAIN @) \ {MountCheck} |-> @[f]]]
         IN  IF s.started THEN c ELSE Put(c, MountCheck)

Commit(prev, s, t, depsChanged) ==
    AutoStartEffect(prev, FaceDetectionEffect(prev, s, t, depsChanged))

-----------------------------------------------------------------------------
(* captureAndSend *)

\* A string field's text; a list in a template string joins with commas
FieldText(f) ==
    IF ~f.list THEN f.v[1]
    ELSE IF Len(f.v) = 0 THEN ""
    ELSE IF Len(f.v) = 1 THEN f.v[1]
    ELSE f.v[1] \o "," \o f.v[2]

\* error.response?.data?.error is truthy
HasErrorField(error) ==
    /\ error.response
    /\ \E i \in DOMAIN error.data :
          /\ error.data[i].k = "error"
          /\ (error.data[i].list \/ error.data[i].v[1] # "")

ErrorFieldOf(error) ==
    error.data[CHOOSE i \in DOMAIN error.data : error.data[i].k = "error"]

\* The toast text `${errTitle}: ${errMsg}` of the catch block
\* Mutant: a catch block that knows one backend error string only
ErrorToastTextOneCase(error) ==
    IF HasErrorField(error)
    THEN LET f == ErrorFieldOf(error)
             e == FieldText(f)
         IN  CASE ~f.list /\ e = "No face detected" ->
                    "No Face Found: Please ensure your face is clearly visible in the frame"
               [] OTHER -> "Error: " \o e
    ELSE IF error.response /\ Len(error.data) > 0
    THEN LET firstError == error.data[1]
         IN  "Connection Error: " \o
                (IF firstError.list
                 THEN (IF Len(firstError.v) > 0 THEN firstError.v[1] ELSE "undefined")
                 ELSE firstError.v[1])
    ELSE "Connection Error: Server connection failed"

ErrorToastText(error) ==
    IF HasErrorField(error)
    THEN LET f == ErrorFieldOf(error)
             e == FieldText(f)
         IN  CASE ~f.list /\ e = "No face detected" ->
                    "No Face Found: Please ensure your face is clearly visible in the frame"
               [] ~f.list /\ e = "Face not recognized" ->
                    "Unregistered Face: Your face is not registered in the system. Please contact administrator."
               [] OTHER -> "Error: " \o e
    ELSE IF error.response /\ Len(error.data) > 0
    THEN LET firstError == error.data[1]
         IN  "Connection Error: " \o
                (IF firstError.list
                 THEN (IF Len(firstError.v) > 0 THEN firstError.v[1] ELSE "undefined")
                 ELSE firstError.v[1])
    ELSE "Connection Error: Server connection failed"

\* if (!cameraRef.current || isProcessingRef.current) return;
CanCapture(s) == cameraRef(s) /\ ~s.isProcessingRef

\* Mutant: captureAndSend that does not set isProcessingRef
captureAndSendEnterNoFlag(s, t) ==
    [s EXCEPT !.lastCaptureTimeRef = t,
              !.nextAllowedCaptureAtRef = Max(@, t),
              !.isProcessing = TRUE,
              !.sessionStart = t]

\* The statements before the try block: the cooldown stamp and the processing flag
captureAndSendEnter(s, t) ==
    [s EXCEPT !.lastCaptureTimeRef = t,
              !.nextAllowedCaptureAtRef = Max(@, t),
              !.isProcessingRef = TRUE,
              !.isProcessing = TRUE,
              !.sessionStart = t]

\* The catch block of captureAndSend
captureCatch(s, error, t) ==
    LET s1 == showToast(s, ErrorToastText(error), "error", "attendance-error", t)
        s2 == stopCameraWith(s1, "error")
    IN  releaseProcessing([s2 EXCEPT !.nextAllowedCaptureAtRef = t + errorBlockMs])

\* await cameraRef.current.takePictureAsync(...): a null ref throws a TypeError
takePicture(s, f, t) ==
    IF cameraRef(s)
    THEN Put(s, Await("timeout", "photo", f.geo, f.armed))
    ELSE captureCatch(s, NoResponseError, t)

\* Mutant: the no-geolocation branch releasing the processing flag at once
locationMissingReleasesNow(s, t) ==
    LET s1 == showToast(s, "Enable location on your device to mark attendance. If already allowed, check app permissions.",
                        "error", "attendance-location-missing", t)
    IN  releaseProcessing([s1 EXCEPT !.nextAllowedCaptureAtRef = t + locationMissingBlockMs])

\* No geolocation: toast, block, release the flag one second later
locationMissing(s, t) ==
    LET s1 == showToast(s, "Enable location on your device to mark attendance. If already allowed, check app permissions.",
                        "error", "attendance-location-missing", t)
    IN  [s1 EXCEPT !.nextAllowedCaptureAtRef = t + locationMissingBlockMs,
                   !.timeouts = @ \cup {Timer("release", 0, t + processingReleaseDelayMs, FALSE, t)}]

\* Mutant: the null-photo branch without the release of the processing flag
photoMissingKeepsFlag(s, t) == showToast(s, "Failed to capture photo", "error", NoKey, t)

\* takePictureAsync resolved with no photo
photoMissing(s, t) ==
    releaseProcessing(showToast(s, "Failed to capture photo", "error", NoKey, t))

\* Mutant: a response branch that blocks for the same window in both cases
handleResponseOneWindow(s, data, t) ==
    LET valid == data.status # "" /\ data.message # ""
        s1 == IF valid
              THEN showToast(s, data.message, "success", NoKey, t)
              ELSE showToast(s, "Received unexpected response from server.", "error",
                             "attendance-unknown", t)
    IN  releaseProcessing([s1 EXCEPT !.nextAllowedCaptureAtRef = t + unexpectedResponseBlockMs])

\* The response branch: data.status && data.message, or not
handleResponse(s, data, t) ==
    IF data.status # "" /\ data.message # ""
    THEN LET type == IF data.status = "Already marked" THEN "info" ELSE "success"
             s1 == showToast(s, data.message, type, NoKey, t)
         IN  releaseProcessing([s1 EXCEPT !.nextAllowedCaptureAtRef = t + postSuccessCooldownMs,
                                          !.respondedAt = t])
    ELSE LET s1 == showToast(s, "Received unexpected response from server.", "error",
                             "attendance-unknown", t)
         IN  releaseProcessing([s1 EXCEPT !.nextAllowedCaptureAtRef = t + unexpectedResponseBlockMs])

\* captureTimeoutRef.current = null, the last statement of the timeout callback
callbackEnd(s) == [s EXCEPT !.captureTimeoutRef = NoTimeout]

-----------------------------------------------------------------------------
(* utils/session: the auth blob in AsyncStorage *)

AUTH_STORAGE_KEY == "trueface_auth"
LEGACY_AUTH_KEYS == <<"trueface_auth">>

StorageKeys == {AUTH_STORAGE_KEY} \cup Range(LEGACY_AUTH_KEYS)

\* An AuthData object: its fields in insertion order, each <<key, string value>>
Obj(fields) == [obj |-> TRUE, fields |-> fields]
Null == [obj |-> FALSE, fields |-> <<>>]

\* a?.[k] is truthy
Truthy(a, k) ==
    /\ a.obj
    /\ \E i \in DOMAIN a.fields : a.fields[i][1] = k /\ a.fields[i][2] # ""

\* JSON text as its tokens: punctuation, and string literals with their content
Tok(t, s) == [t |-> t, s |-> s]

RECURSIVE Members(_)
Members(fields) ==
    IF Len(fields) = 0 THEN <<>>
    ELSE <<Tok("str", Head(fields)[1]), Tok(":", ""), Tok("str", Head(fields)[2])>>
         \o (IF Len(fields) > 1 THEN <<Tok(",", "")>> ELSE <<>>)
         \o Members(Tail(fields))

JSONstringify(a) ==
    IF a.obj
    THEN <<Tok("{", "")>> \o Members(a.fields) \o <<Tok("}", "")>>
    ELSE <<Tok("null", "")>>

\* Set key k of an object being parsed: a repeated key keeps its place and
\* takes the later value
SetField(fields, k, v) ==
    IF \E i \in DOMAIN fields : fields[i][1] = k
    THEN [i \in DOMAIN fields |-> IF fields[i][1] = k THEN <<k, v>> ELSE fields[i]]
    ELSE Append(fields, <<k, v>>)

\* The members of an object from token i on; ok = FALSE is a SyntaxError
RECURSIVE ParseMembers(_, _, _)
ParseMembers(raw, i, acc) ==
    IF i + 2 > Len(raw) - 1
       \/ raw[i].t # "str" \/ raw[i + 1].t # ":" \/ raw[i + 2].t # "str"
    THEN [ok |-> FALSE, value |-> Null]
    ELSE LET next == SetField(acc, raw[i].s, raw[i + 2].s)
         IN  IF i + 3 = Len(raw)
             THEN [ok |-> TRUE, value |-> Obj(next)]
             ELSE IF raw[i + 3].t = ","
             THEN ParseMembers(raw, i + 4, next)
             ELSE [ok |-> FALSE, value |-> Null]

JSONparse(raw) ==
    IF raw = <<Tok("null", "")>> THEN [ok |-> TRUE, value |-> Null]
    ELSE IF Len(raw) < 2 \/ raw[1].t # "{" \/ raw[Len(raw)].t # "}"
    THEN [ok |-> FALSE, value |-> Null]
    ELSE IF Len(raw) = 2 THEN [ok |-> TRUE, value |-> Obj(<<>>)]
    ELSE ParseMembers(raw, 2, <<>>)

\* AsyncStorage: no item is the empty text
NoItem == <<>>
getItem(st, k) == st[k]
setItem(st, k, raw) == [st EXCEPT ![k] = raw]
removeItem(st, k) == [st EXCEPT ![k] = NoItem]

RECURSIVE removeItems(_, _)
removeItems(st, keys) ==
    IF Len(keys) = 0 THEN st
    ELSE removeItems(removeItem(st, Head(keys)), Tail(keys))

\* setAuthData without the skip of the active key in its loop
LegacyKeysToRemoveAll == LEGACY_AUTH_KEYS

\* The legacy keys that setAuthData removes after a write: not the active key
LegacyKeysToRemove == SelectSeq(LEGACY_AUTH_KEYS, LAMBDA k : k # AUTH_STORAGE_KEY)

setAuthData(st, a) ==
    IF ~a.obj
    THEN removeItems(removeItem(st, AUTH_STORAGE_KEY), LEGACY_AUTH_KEYS)
    ELSE removeItems(setItem(st, AUTH_STORAGE_KEY, JSONstringify(a)), LegacyKeysToRemove)

clearAuthData(st) ==
    removeItems(removeItem(st, AUTH_STORAGE_KEY), LEGACY_AUTH_KEYS)

\* The legacy-key loop of getAuthData from key i on: [st, raw, done, value]
RECURSIVE legacyLoop(_, _)
legacyLoop(st, i) ==
    IF i > Len(LEGACY_AUTH_KEYS)
    THEN [st |-> st, raw |-> NoItem, done |-> FALSE, value |-> Null]
    ELSE LET legacyKey == LEGACY_AUTH_KEYS[i]
             raw == getItem(st, legacyKey)
         IN  IF raw = NoItem
             THEN legacyLoop(st, i + 1)
             ELSE LET parsed == JSONparse(raw)
                  IN  IF parsed.ok
                      THEN [st |-> removeItem(setAuthData(st, parsed.value), legacyKey),
                            raw |-> raw, done |-> TRUE, value |-> parsed.value]
                      ELSE legacyLoop(removeItem(st, legacyKey), i + 1)

\* getAuthData: the storage it leaves and the record it returns
getAuthData(st) ==
    LET raw == getItem(st, AUTH_STORAGE_KEY)
    IN  IF raw # NoItem
        THEN LET parsed == JSONparse(raw)
             IN  IF parsed.ok
                 THEN [st |-> st, value |-> parsed.value]
                 ELSE [st |-> removeItem(st, AUTH_STORAGE_KEY), value |-> Null]
        ELSE LET l == legacyLoop(st, 1)
             IN  [st |-> l.st, value |-> l.value]

-----------------------------------------------------------------------------
(* httpClient's response interceptor and AuthContext *)

\* AuthContext.isAuthenticated: Boolean(auth?.token)
isAuthenticated(a) == Truthy(a, "token")

\* An interceptor that treats only 401 as an authentication error
IsAuthFailure401Only(error) == error.response /\ error.status = 401

\* error?.response?.status === 401 || error?.response?.status === 403
IsAuthFailure(error) == error.response /\ error.status \in {401, 403}

\* if (logoutCallback) logoutCallback(): the callback AuthProvider registers
\* is setAuth(null)
invokeLogoutCallback(a, registered) == IF registered THEN Null ELSE a

\* The rejected branch of the response interceptor run in one piece: the
\* storage and the auth state it leaves (the error is rejected again in every
\* case).  isProcessingRef holds the attendance loop while the interceptor
\* awaits clearAuthData, so its request failures take this branch as one step.
responseError(error, st, a, registered) ==
    IF IsAuthFailure(error)
    THEN [st |-> clearAuthData(st), auth |-> invokeLogoutCallback(a, registered)]
    ELSE [st |-> st, auth |-> a]

\* Request headers; "" is a header that is not set
Headers(upper, lower) == [Authorization |-> upper, authorization |-> lower]
NoHeaders == Headers("", "")

\* `Token ${auth.token}`
TokenValue(a) ==
    "Token " \o a.fields[CHOOSE i \in DOMAIN a.fields : a.fields[i][1] = "token"][2]

\* Mutant: a header effect without its else branch
headerEffectSetsOnly(d, a) ==
    IF Truthy(a, "token") THEN Headers(TokenValue(a), TokenValue(a)) ELSE d

\* AuthProvider's effect with deps [auth]: the default headers carry the
\* token of auth, or are deleted
headerEffect(d, a) ==
    IF Truthy(a, "token") THEN Headers(TokenValue(a), TokenValue(a)) ELSE NoHeaders

\* setAuth(a1) in state a0 gives React a new value: every record is a new
\* object, null is null
NewAuth(a0, a1) == a0.obj \/ a1.obj

\* The context value: isAuthenticated: Boolean(auth?.token), loading
AuthContextValue(a, l) == [isAuthenticated |-> isAuthenticated(a), loading |-> l]

\* Mutant: a memo without auth among its deps
useMemoLoadingOnly(prev, a0, l0, a1, l1) ==
    IF l0 # l1 THEN AuthContextValue(a1, l1) ELSE prev

\* useMemo(() => ({...}), [auth, loading])
useMemo(prev, a0, l0, a1, l1) ==
    IF NewAuth(a0, a1) \/ l0 # l1 THEN AuthContextValue(a1, l1) ELSE prev

\* AuthProvider renders after setAuth(a) and setLoading(l): its state, the
\* memoized context value, the header effect
AuthProviderRender(a, l) ==
    /\ auth' = a
    /\ loading' = l
    /\ context' = useMemo(context, auth, loading, a, l)
    /\ defaults' = IF NewAuth(auth, a) THEN headerEffect(defaults, a) ELSE defaults

\* Mutant: a navigator that does not wait for loading to end
RootNavigatorIgnoresLoading(c) == IF c.isAuthenticated THEN "attendance" ELSE "login"

\* What RootNavigator renders
RootNavigator(c) ==
    IF c.loading THEN "blank"
    ELSE IF c.isAuthenticated THEN "attendance" ELSE "login"

\* DrawerNavigator as mounted: the drawer is closed; no alert is on screen
DrawerClosed == [isDrawerOpen |-> FALSE, alert |-> FALSE]

\* screenNavigationService as loaded: no callback (0); what each callback
\* was invoked with
Callbacks == {1, 2}
NoNavigation == [navigationCallback |-> 0, invoked |-> [c \in Callbacks |-> <<>>]]

\* RootNavigator renders the attendance screen
ShowsAttendance == RootNavigator(context) = "attendance"

-----------------------------------------------------------------------------
(* The attendance screen's handlers *)

\* The handler that ran last: its name, the outcome of the await it resumed
\* from, the error it caught, and sessionStart as it found it
Ran(op, outcome) ==
    [op |-> op, outcome |-> outcome, error |-> NoResponseError, prev |-> 0, armed |-> 0]

Shown == screen.mounted /\ ShowsAttendance

AuthUnchanged ==
    UNCHANGED <<auth, loading, storage, logoutCallback, flows, context, defaults,
                drawer, navigation>>

\* The user presses a button
Press == presses < MaxPresses /\ presses' = presses + 1

\* Outcomes of takePictureAsync + MLKitFaceDetector.detect in checkForFace
DetectOutcomes == {"face", "noface", "fail"}

\* Outcomes of fetchGeolocation: a position, no position (permission granted),
\* or permission denied (only while the OS permission is not granted)
GeoOutcomes == IF osLocation THEN {"ok", "nopos"} ELSE {"ok", "nopos", "denied"}

\* checkForFace up to its first await: FALSE is `return false`
checkForFaceReady(s) == cameraRef(s) /\ ~s.isProcessingRef

\* checkForFace after its awaits: a failed detection returns false and leaves
\* faceDetectedRef alone
checkForFaceDone(s, outcome) ==
    IF outcome # "fail" /\ s.faceDetectedRef # (outcome = "face")
    THEN [s EXCEPT !.faceDetectedRef = (outcome = "face"), !.faceDetected = (outcome = "face")]
    ELSE s

allowedByTime(s, t) ==
    /\ t - s.lastCaptureTimeRef > cooldownMs
    /\ t >= s.nextAllowedCaptureAtRef

\* A setTimeout id that no pending capture timer and no reference uses
NewTimerId(s) ==
    LET used == {x.id : x \in {y \in s.timeouts : y.kind = "capture"}} \cup {s.captureTimeoutRef}
    IN  CHOOSE i \in 1..(Cardinality(used) + 1) : i \notin used

\* Mutant: a poll callback that schedules the capture without the cooldown gate
pollResultNoGate(s, detected, geo, t) ==
    IF detected /\ ~s.isProcessingRef /\ s.captureTimeoutRef = NoTimeout
    THEN LET id == NewTimerId(s)
         IN  [s EXCEPT !.timeouts = @ \cup {Timer("capture", id, t + stableFaceDelayMs, geo, t)},
                       !.captureTimeoutRef = id]
    ELSE IF ~detected
    THEN LET c == clearCaptureTimeout(s)
         IN  IF c.faceDetectedRef THEN resetFaceDetected(c) ELSE c
    ELSE s

\* The poll callback after `await checkForFace()`
pollResult(s, detected, geo, t) ==
    IF detected /\ ~s.isProcessingRef /\ s.captureTimeoutRef = NoTimeout
    THEN IF allowedByTime(s, t)
         THEN LET id == NewTimerId(s)
              IN  [s EXCEPT !.timeouts = @ \cup {Timer("capture", id, t + stableFaceDelayMs, geo, t)},
                            !.captureTimeoutRef = id]
         ELSE s
    ELSE IF ~detected
    THEN LET c == clearCaptureTimeout(s)
         IN  IF c.faceDetectedRef THEN resetFaceDetected(c) ELSE c
    ELSE s

\* setInterval callback: one poll tick, to its await of checkForFace
Tick ==
    /\ Shown
    /\ screen.detectInterval.on
    /\ screen.detectInterval.next <= now
    /\ LET s == [screen EXCEPT !.detectInterval.next = @ + pollIntervalMs]
       IN  screen' = IF s.isProcessingRef THEN s
                     ELSE IF checkForFaceReady(s)
                     THEN Put(s, Await("tick", "detect", s.detectInterval.geo, 0))
                     ELSE pollResult(s, FALSE, s.detectInterval.geo, now)
    /\ last' = Ran("tick", "")
    /\ UNCHANGED <<now, osLocation, presses>>
    /\ AuthUnchanged

\* The poll callback resumes with the detection result
TickResume ==
    /\ Shown
    /\ \E f \in PendingOf(screen, "tick", "detect") : \E outcome \in DetectOutcomes :
          /\ screen' = [pollResult(checkForFaceDone(Take(screen, f), outcome),
                                   outcome = "face", f.geo, now)
                          EXCEPT !.retried = @ /\ outcome # "face"]
          /\ last' = Ran("poll", IF outcome = "face" THEN "face" ELSE "")
    /\ UNCHANGED <<now, osLocation, presses>>
    /\ AuthUnchanged

\* The stable-face timeout fires: the callback to its await of checkForFace
CaptureTimeoutFire ==
    /\ Shown
    /\ \E x \in screen.timeouts :
          /\ x.kind = "capture" /\ x.due <= now
          /\ LET s == [screen EXCEPT !.timeouts = @ \ {x}]
             IN  screen' = IF checkForFaceReady(s)
                           THEN Put(s, Await("timeout", "detect", x.geo, x.armed))
                           ELSE callbackEnd(resetFaceDetected(s))
    /\ last' = Ran("captureTimeout", "")
    /\ UNCHANGED <<now, osLocation, presses>>
    /\ AuthUnchanged

\* The timeout callback resumes with the second detection: captureAndSend to
\* its first await, or the face-lost branch
StableFaceResume ==
    /\ Shown
    /\ \E f \in PendingOf(screen, "timeout", "detect") : \E outcome \in DetectOutcomes :
          LET s == checkForFaceDone(Take(screen, f), outcome)
          IN  IF outcome = "face" /\ ~s.isProcessingRef /\ cameraRef(s)
              THEN /\ screen' = IF ~CanCapture(s) THEN callbackEnd(s)
                                ELSE IF f.geo
                                THEN takePicture(captureAndSendEnter(s, now), f, now)
                                ELSE Put(captureAndSendEnter(s, now),
                                         Await("timeout", "geo", FALSE, f.armed))
                   /\ last' = [Ran("captureStart", outcome) EXCEPT
                                 !.prev = s.sessionStart, !.armed = f.armed]
              ELSE /\ screen' = callbackEnd(resetFaceDetected(s))
                   /\ last' = Ran("faceLost", "")
    /\ UNCHANGED <<now, osLocation, presses>>
    /\ AuthUnchanged

\* captureAndSend resumes from `await fetchGeolocation()`
CaptureGeoResume ==
    /\ Shown
    /\ \E f \in PendingOf(screen, "timeout", "geo") : \E outcome \in GeoOutcomes :
          /\ LET s == Take(screen, f)
             IN  screen' =
                   IF outcome = "ok"
                   THEN LET s1 == takePicture([s EXCEPT !.geolocation = TRUE], f, now)
                        IN  Commit(screen,
                                   IF cameraRef(s) THEN s1 ELSE callbackEnd(s1),
                                   now, TRUE)
                   ELSE callbackEnd(locationMissing(s, now))
          /\ osLocation' = (osLocation \/ outcome # "denied")
          /\ last' = Ran("captureGeo", outcome)
    /\ UNCHANGED <<now, presses>>
    /\ AuthUnchanged

\* captureAndSend resumes from `await takePictureAsync()`: a photo (and
\* markAttendance is called), no photo, or an exception
CapturePhotoResume ==
    /\ Shown
    /\ \E f \in PendingOf(screen, "timeout", "photo") :
       \E outcome \in {"photo", "null", "error"} :
          /\ LET s == Take(screen, f)
             IN  screen' =
                   CASE outcome = "photo" -> Put(s, Await("timeout", "request", f.geo, f.armed))
                     [] outcome = "null" -> callbackEnd(photoMissing(s, now))
                     [] outcome = "error" ->
                          Commit(screen, callbackEnd(captureCatch(s, NoResponseError, now)), now, FALSE)
          /\ last' = Ran("capturePhoto", outcome)
    /\ UNCHANGED <<now, osLocation, presses>>
    /\ AuthUnchanged

\* captureAndSend resumes from `await markAttendance()` with a response
CaptureResponse ==
    /\ Shown
    /\ \E f \in PendingOf(screen, "timeout", "request") : \E data \in Responses :
          /\ screen' = callbackEnd(handleResponse(Take(screen, f), data, now))
          /\ last' = Ran("captureResponse", IF data.status # "" /\ data.message # ""
                                             THEN "attendance" ELSE "unexpected")
    /\ UNCHANGED <<now, osLocation, presses>>
    /\ AuthUnchanged

\* markAttendance fails: the response interceptor, then captureAndSend's catch
RequestFails(errors) ==
    /\ Shown
    /\ \E f \in PendingOf(screen, "timeout", "request") : \E error \in errors :
          LET r == responseError(error, storage, auth, logoutCallback)
          IN  /\ screen' = Commit(screen, callbackEnd(captureCatch(Take(screen, f), error, now)),
                                  now, FALSE)
              /\ storage' = r.st
              /\ IF r.auth = auth
                 THEN UNCHANGED <<auth, loading, context, defaults>>
                 ELSE AuthProviderRender(r.auth, loading)
              /\ last' = [Ran("captureError", "") EXCEPT !.error = error]
    /\ UNCHANGED <<now, osLocation, logoutCallback, flows, presses, drawer, navigation>>

CaptureRequestError == RequestFails(LoopErrors)

\* The one-second timer of the no-geolocation path releases the processing flag
ReleaseTimerFire ==
    /\ Shown
    /\ \E x \in screen.timeouts :
          /\ x.kind = "release" /\ x.due <= now
          /\ screen' = releaseProcessing([screen EXCEPT !.timeouts = @ \ {x}])
    /\ last' = Ran("release", "")
    /\ UNCHANGED <<now, osLocation, presses>>
    /\ AuthUnchanged

\* A toast's expiry timer: removeToast(id)
ToastTimerFire ==
    /\ Shown
    /\ \E x \in screen.timeouts :
          /\ x.kind = "toast" /\ x.due <= now
          /\ screen' = removeToast([screen EXCEPT !.timeouts = @ \ {x}], x.id)
          /\ last' = [Ran("toastExpiry",
                           IF \E i \in DOMAIN screen.toasts : screen.toasts[i].id = x.id
                           THEN "removed" ELSE "absent")
                         EXCEPT !.prev = x.id]
    /\ UNCHANGED <<now, osLocation, presses>>
    /\ AuthUnchanged

\* Cancel, shown on the camera screen while not processing
handleCancel ==
    /\ Shown
    /\ Press
    /\ screen.started /\ screen.cameraActive /\ ~screen.isProcessing
    /\ screen' = Commit(screen, stopCameraWith(screen, "cancelled"), now, FALSE)
    /\ last' = Ran("handleCancel", "")
    /\ UNCHANGED <<now, osLocation>>
    /\ AuthUnchanged

\* Retry Attendance, shown on the stopped screen
handleRetry ==
    /\ Shown
    /\ Press
    /\ screen.started /\ ~screen.cameraActive
    /\ screen' = Commit(screen,
                        [releaseProcessing(dismissAllToasts(screen)) EXCEPT
                            !.lastCaptureTimeRef = 0,
                            !.nextAllowedCaptureAtRef = 0,
                            !.stoppedState = "idle",
                            !.cameraActive = TRUE,
                            !.sessionStart = 0,
                            !.respondedAt = 0,
                            !.retried = TRUE],
                        now, FALSE)
    /\ last' = Ran("handleRetry", "")
    /\ UNCHANGED <<now, osLocation>>
    /\ AuthUnchanged

\* Mutant: the end of handleStart without the reset of the two timestamps
startCameraKeepsStamps(s) ==
    [s EXCEPT !.started = TRUE,
              !.cameraActive = TRUE,
              !.stoppedState = "idle",
              !.sessionStart = 0,
              !.respondedAt = 0,
              !.retried = FALSE]

\* The end of handleStart once permission is granted; its closure saw started
\* false (the button is on the start screen), so the refs are reset
startCamera(s) ==
    [s EXCEPT !.lastCaptureTimeRef = 0,
              !.nextAllowedCaptureAtRef = 0,
              !.started = TRUE,
              !.cameraActive = TRUE,
              !.stoppedState = "idle",
              !.sessionStart = 0,
              !.respondedAt = 0,
              !.retried = FALSE]

\* Allow Location & Start, shown on the start screen: to the first await
handleStart ==
    /\ Shown
    /\ Press
    /\ ~screen.started
    /\ Count(screen, {StartPermission, StartFetch}) < MaxStartsPending
    /\ screen' = Put(dismissAllToasts(screen), StartPermission)
    /\ last' = Ran("handleStart", "")
    /\ UNCHANGED <<now, osLocation>>
    /\ AuthUnchanged

\* handleStart resumes with the permission status
handleStartPermission ==
    /\ Shown
    /\ osLocation => Count(screen, {BackgroundFetch}) < MaxFetchesPending
    /\ \E f \in PendingOf(screen, "start", "perm") :
          LET s == Take(screen, f)
          IN  /\ screen' = IF osLocation
                           THEN Commit(screen, startCamera(Put(s, BackgroundFetch)), now, FALSE)
                           ELSE Put(s, StartFetch)
              /\ last' = Ran("handleStartPermission", IF osLocation THEN "granted" ELSE "undetermined")
    /\ UNCHANGED <<now, osLocation, presses>>
    /\ AuthUnchanged

\* handleStart resumes from fetchGeolocation and checks the permission again
handleStartFetched ==
    /\ Shown
    /\ \E f \in PendingOf(screen, "start", "fetch") : \E outcome \in GeoOutcomes :
          LET s == Take(screen, f)
              g == IF outcome = "ok" THEN [s EXCEPT !.geolocation = TRUE] ELSE s
          IN  /\ screen' = Commit(screen,
                                  IF outcome = "denied"
                                  THEN showToast(g, "Location permission is required to mark attendance",
                                                 "error", "location-required", now)
                                  ELSE startCamera(g),
                                  now, outcome = "ok")
              /\ osLocation' = (osLocation \/ outcome # "denied")
              /\ last' = Ran("handleStartFetched", outcome)
    /\ UNCHANGED <<now, presses>>
    /\ AuthUnchanged

\* The auto-start effect resumes with the permission status
autoStart ==
    /\ Shown
    /\ MountCheck \in BagToSet(screen.pending)
    /\ osLocation => Count(screen, {BackgroundFetch}) < MaxFetchesPending
    /\ LET s == Take(screen, MountCheck)
       IN  screen' = IF osLocation
                     THEN Commit(screen,
                                 Put([s EXCEPT !.started = TRUE, !.cameraActive = TRUE],
                                     BackgroundFetch),
                                 now, FALSE)
                     ELSE s
    /\ last' = Ran("autoStart", IF osLocation THEN "granted" ELSE "undetermined")
    /\ UNCHANGED <<now, osLocation, presses>>
    /\ AuthUnchanged

\* A fetchGeolocation that nobody awaits resolves
backgroundFetch ==
    /\ Shown
    /\ BackgroundFetch \in BagToSet(screen.pending)
    /\ \E outcome \in GeoOutcomes :
          /\ LET s == Take(screen, BackgroundFetch)
             IN  screen' = IF outcome = "ok"
                           THEN Commit(screen, [s EXCEPT !.geolocation = TRUE], now, TRUE)
                           ELSE s
          /\ osLocation' = (osLocation \/ outcome # "denied")
          /\ last' = Ran("backgroundFetch", "")
    /\ UNCHANGED <<now, presses>>
    /\ AuthUnchanged

\* RootNavigator renders the login screen instead: the attendance screen
\* unmounts, its effects are cleaned up and its state is gone
Unmounted == [InitScreen EXCEPT !.mounted = FALSE, !.pending = EmptyBag]

unmount ==
    /\ screen.mounted /\ ~ShowsAttendance
    /\ screen' = Unmounted
    /\ last' = Ran("unmount", "")
    /\ UNCHANGED <<now, osLocation, presses>>
    /\ AuthUnchanged

\* Awaits of checkForFace that are still unresolved
PendingDetects(s) ==
    BagCardinality([f \in {g \in DOMAIN s.pending : g.pc = "detect"} |-> s.pending[f]])

\* The clock moves on to the next poll instant; a due timer fires first
AdvanceTimeTo(limit) ==
    /\ Shown
    /\ now < limit
    /\ \A x \in screen.timeouts : x.due > now
    /\ screen.detectInterval.on => screen.detectInterval.next > now
    /\ PendingDetects(screen) <= MaxPendingDetect
    /\ now' = now + pollIntervalMs
    /\ last' = Ran("time", "")
    /\ UNCHANGED <<screen, osLocation, presses>>
    /\ AuthUnchanged

AdvanceTime == AdvanceTimeTo(Horizon)

-----------------------------------------------------------------------------
(* The attendance screen of a signed-in session *)

Session ==
    Obj(<< <<"token", "9f2c">>, <<"name", "Asha">>, <<"role", "employee">>,
           <<"location", "HQ">> >>)

EmptyStorage == [k \in StorageKeys |-> NoItem]

Init ==
    /\ now = StartTime
    /\ screen = InitScreen
    /\ osLocation \in BOOLEAN
    /\ auth = Session
    /\ loading = FALSE
    /\ context = AuthContextValue(Session, FALSE)
    /\ defaults = headerEffect(NoHeaders, Session)
    /\ drawer = DrawerClosed
    /\ navigation = NoNavigation
    /\ storage = setAuthData(EmptyStorage, Session)
    /\ logoutCallback = TRUE
    /\ flows = EmptyBag
    /\ presses = 0
    /\ last = Ran("mount", "")

Next ==
    \/ Tick
    \/ TickResume
    \/ CaptureTimeoutFire
    \/ StableFaceResume
    \/ CaptureGeoResume
    \/ CapturePhotoResume
    \/ CaptureResponse
    \/ CaptureRequestError
    \/ ReleaseTimerFire
    \/ ToastTimerFire
    \/ handleCancel
    \/ handleRetry
    \/ handleStart
    \/ handleStartPermission
    \/ handleStartFetched
    \/ autoStart
    \/ backgroundFetch
    \/ unmount
    \/ AdvanceTime

Spec == Init /\ [][Next]_vars

\* The loop left alone by a user who has granted the location permission, up
\* to its first captures, with every failure of markAttendance.  (No toast
\* lives its 5000 ms by LoopHorizon: no expiry timer fires here.)
InitCatch == Init /\ osLocation

NextCatch ==
    \/ Tick
    \/ TickResume
    \/ CaptureTimeoutFire
    \/ StableFaceResume
    \/ CaptureGeoResume
    \/ CapturePhotoResume
    \/ CaptureResponse
    \/ RequestFails(RequestErrors)
    \/ ReleaseTimerFire
    \/ autoStart
    \/ backgroundFetch
    \/ unmount
    \/ AdvanceTimeTo(LoopHorizon)

SpecCatch == InitCatch /\ [][NextCatch]_vars

\* What runs without the user: timers, the settling of awaits, the clock
Background ==
    \/ Tick \/ TickResume \/ CaptureTimeoutFire \/ StableFaceResume
    \/ CaptureGeoResume \/ CapturePhotoResume \/ CaptureResponse \/ CaptureRequestError
    \/ ReleaseTimerFire \/ ToastTimerFire
    \/ handleStartPermission \/ handleStartFetched \/ autoStart \/ backgroundFetch
    \/ unmount \/ AdvanceTime

\* The event loop keeps running: while a timer is due, an await can settle or
\* the clock can move on, one of them does.  The user's presses are not fair:
\* the user may never press.
FairSpec == Spec /\ WF_vars(Background)

-----------------------------------------------------------------------------
(* Properties of the attendance loop *)

\* captureAndSend calls that passed the guard and have not returned
Capturing(s) ==
    BagCardinality([f \in {g \in DOMAIN s.pending :
                             g.fn = "timeout" /\ g.pc \in {"geo", "photo", "request"}}
                    |-> s.pending[f]])

\* C1: at most one attendance submission is in flight.  At most one
\* captureAndSend is between its guard and its return, it holds
\* isProcessingRef while it is, and so two markAttendance requests are never
\* outstanding together, whatever ticks, timeouts and button presses interleave.
C1_OneSubmissionInFlight ==
    /\ Capturing(screen) <= 1
    /\ Outstanding(screen) <= 1
    /\ Capturing(screen) > 0 => screen.isProcessingRef

\* A stable-face timeout fired while a markAttendance request was outstanding,
\* and its callback went no further
C1_Witness ==
    /\ last.op = "captureTimeout"
    /\ Outstanding(screen) = 1
    /\ Capturing(screen) = 1

\* C2: within one capture session (no handleRetry, no handleStart in between)
\* two consecutive captureAndSend starts are more than 10 seconds apart.
\* Checked for the sessions in which the user presses no button at all.
C2_CaptureStartsApart ==
    presses = 0 /\ last.op = "captureStart" /\ last.prev # 0 => now - last.prev > 10000

\* The catch block of captureAndSend ran: markAttendance or takePictureAsync threw
CaughtError ==
    \/ last.op = "captureError"
    \/ last.op = "capturePhoto" /\ last.outcome = "error"

\* What a showToast call with a key does to the toast list and to the key's
\* recorded time: nothing in the 3000 ms after the last toast shown with the
\* key, and else one more toast, stamped with the current time
ToastRequested(s, t, key, type) ==
    IF s.lastToastTimeRef[key] # 0 /\ now - s.lastToastTimeRef[key] < 3000
    THEN /\ t.toasts = s.toasts
         /\ t.lastToastTimeRef = s.lastToastTimeRef
    ELSE /\ Len(t.toasts) = Len(s.toasts) + 1
         /\ SubSeq(t.toasts, 1, Len(s.toasts)) = s.toasts
         /\ t.toasts[Len(t.toasts)].id = now
         /\ t.toasts[Len(t.toasts)].type = type
         /\ t.lastToastTimeRef = [s.lastToastTimeRef EXCEPT ![key] = now]

\* C4: when markAttendance or the photo capture throws inside captureAndSend
\* the loop is short-circuited: the camera is stopped back to the start screen
\* (cameraActive and started false, stoppedState idle, faceDetected false), one
\* 'attendance-error' toast is requested, the next capture is blocked for
\* 10000 ms and the processing flag is released.
C4_ErrorStopsCapture ==
    [][ CaughtError' =>
          /\ ~screen'.cameraActive
          /\ ~screen'.started
          /\ screen'.stoppedState = "idle"
          /\ ~screen'.faceDetected
          /\ ToastRequested(screen, screen', "attendance-error", "error")
          /\ screen'.nextAllowedCaptureAtRef = now + 10000
          /\ ~screen'.isProcessingRef
          /\ ~screen'.isProcessing
      ]_vars

\* markAttendance was rejected and the error toast is on the screen
C4_Witness ==
    /\ last.op = "captureError"
    /\ last.error = ErrNoFace
    /\ \E i \in DOMAIN screen.toasts : screen.toasts[i].id = now

\* C6: the block after a capture attempt is a fixed window chosen by the
\* outcome alone: completion time + 10000 ms without a geolocation or after a
\* thrown error, + 6000 ms after an unexpected response, + 8000 ms after a
\* response with status and message; it is the same after a first failure
\* and after a failure that follows another.
C6_FixedBlockWindows ==
    /\ last.op = "captureGeo" /\ last.outcome # "ok" =>
            screen.nextAllowedCaptureAtRef = now + 10000
    /\ CaughtError => screen.nextAllowedCaptureAtRef = now + 10000
    /\ last.op = "captureResponse" /\ last.outcome = "unexpected" =>
            screen.nextAllowedCaptureAtRef = now + 6000
    /\ last.op = "captureResponse" /\ last.outcome = "attendance" =>
            screen.nextAllowedCaptureAtRef = now + 8000

\* A submission failed after an earlier one had failed, and the block is
\* again 10000 ms
C6_Witness ==
    /\ last.op = "captureError"
    /\ screen.lastToastTimeRef["attendance-error"] # 0
    /\ screen.lastToastTimeRef["attendance-error"] < now
    /\ screen.nextAllowedCaptureAtRef = now + 10000

\* The capture timers set, and the captureAndSend calls begun, by a step
ArmedBy(s, t) == {x \in t.timeouts \ s.timeouts : x.kind = "capture"}

\* C8: markAttendance is called only after, in order, a poll tick with a
\* positive detection that passed the cooldown gate, the 2000 ms stable-face
\* delay, and a second positive detection; a negative second detection (or
\* processing begun, or no camera) submits nothing and resets faceDetected.
C8_DetectionSequence ==
    [][ /\ ArmedBy(screen, screen') # {} =>
              /\ last'.op = "poll" /\ last'.outcome = "face"
              /\ now - screen.lastCaptureTimeRef > 10000
              /\ now >= screen.nextAllowedCaptureAtRef
              /\ \A x \in ArmedBy(screen, screen') : x.armed = now /\ x.due = now + 2000
        /\ Capturing(screen') > Capturing(screen) =>
              /\ last'.op = "captureStart" /\ last'.outcome = "face"
              /\ last'.armed # 0
              /\ now - last'.armed >= 2000
        /\ Outstanding(screen') > Outstanding(screen) =>
              /\ last'.op = "capturePhoto" /\ last'.outcome = "photo"
              /\ Capturing(screen) = 1 /\ Capturing(screen') = 1
        /\ last'.op = "faceLost" =>
              /\ Capturing(screen') = Capturing(screen)
              /\ Outstanding(screen') = Outstanding(screen)
              /\ ~screen'.faceDetected /\ ~screen'.faceDetectedRef
      ]_vars

\* The whole sequence ran: a markAttendance request is outstanding
C8_Witness ==
    /\ last.op = "capturePhoto" /\ last.outcome = "photo"
    /\ Outstanding(screen) = 1

\* The 1000 ms timer of the no-geolocation path is pending
ReleasePending(s) == \E x \in s.timeouts : x.kind = "release" /\ x.due <= now + 1000

\* C5: every captureAndSend that sets the processing flag clears it again, at
\* once or, without a geolocation, through the 1000 ms timer.  While
\* isProcessingRef or isProcessing is true the captureAndSend that set it is
\* still running or its release timer is pending, and the flag never stays
\* true forever.  (The clock of the model stops at Horizon: a release timer due
\* after it is the one thing left waiting.)
C5_FlagReleased ==
    /\ [](screen.isProcessingRef \/ screen.isProcessing =>
             /\ screen.isProcessingRef /\ screen.isProcessing
             /\ Capturing(screen) = 1 \/ ReleasePending(screen))
    /\ (screen.isProcessingRef \/ screen.isProcessing) ~>
          \/ ~screen.isProcessingRef /\ ~screen.isProcessing
          \/ \E x \in screen.timeouts : x.kind = "release" /\ x.due > Horizon

\* The release timer of the no-geolocation path cleared the flag
C5_Witness ==
    /\ last.op = "release"
    /\ ~screen.isProcessingRef /\ ~screen.isProcessing
    /\ screen.nextAllowedCaptureAtRef > now

\* The times of the clock at which a toast can be shown and expire by Horizon
ToastTimes ==
    {t \in {StartTime + k * pollIntervalMs : k \in 0..MaxClockSteps} : t + 5000 <= Horizon}

HasToast(id) == \E i \in DOMAIN screen.toasts : screen.toasts[i].id = id

\* C9: every toast in the list is removed again.  Its expiry timer, due 5000 ms
\* after it was shown, is pending while it is listed; the timer's firing
\* removes the toasts of that id and no other (nothing, if dismissAllToasts was
\* first); and no toast stays.  (The clock of the model stops at Horizon: the
\* last conjunct follows the toasts whose 5000 ms end by then.)
C9_ToastsExpire ==
    /\ [](\A i \in DOMAIN screen.toasts :
             \E x \in screen.timeouts :
                /\ x.kind = "toast" /\ x.id = screen.toasts[i].id
                /\ x.due = x.id + 5000 /\ now <= x.due)
    /\ [][ last'.op = "toastExpiry" =>
             screen'.toasts = SelectSeq(screen.toasts, LAMBDA x : x.id # last'.prev)
         ]_vars
    /\ \A t \in ToastTimes :
          HasToast(t) ~> ~HasToast(t)

\* An expiry timer fired and removed its toast
C9_Witness ==
    /\ last.op = "toastExpiry" /\ last.outcome = "removed"
    /\ ~HasToast(last.prev)
    /\ now = last.prev + 5000

-----------------------------------------------------------------------------
(* Properties of stopping the camera *)

\* Capture timeouts that are set and have not fired
CaptureTimeouts(s) == {x \in s.timeouts : x.kind = "capture"}

\* C16: when started or cameraActive becomes false the poll interval and the
\* pending capture timeout are cleared: while the camera is inactive the
\* interval is off, no capture timeout is pending, and no captureAndSend
\* starts.
C16_StopCancelsTimers ==
    /\ ~(screen.started /\ screen.cameraActive) =>
          /\ ~screen.detectInterval.on
          /\ CaptureTimeouts(screen) = {}
    /\ last.op = "captureStart" => screen.started /\ screen.cameraActive

\* C17: after a response with status and message was handled, no captureAndSend
\* starts less than 8000 ms later, as long as neither handleRetry nor
\* handleStart ran in between.
C17_CooldownAfterResponse ==
    last.op = "captureStart" /\ screen.respondedAt # 0 =>
        now - screen.respondedAt >= 8000

\* C18: no submission without a geolocation.  When captureAndSend had no
\* cached geolocation and fetchGeolocation returned null, it returns without a
\* photo and without a markAttendance request, started and cameraActive stay as
\* they were, the 'attendance-location-missing' error toast is requested,
\* nextAllowedCaptureAt is now + 10000, and the processing flag stays set until
\* the timer set for now + 1000 fires.  Every request that is outstanding was
\* sent by a captureAndSend that had a geolocation.
C18_NoSubmissionWithoutLocation ==
    /\ [][last'.op = "captureGeo" /\ last'.outcome # "ok" =>
            /\ Capturing(screen') = Capturing(screen) - 1
            /\ PendingOf(screen', "timeout", "photo") = PendingOf(screen, "timeout", "photo")
            /\ Outstanding(screen') = Outstanding(screen)
            /\ screen'.cameraActive = screen.cameraActive
            /\ screen'.started = screen.started
            /\ ToastRequested(screen, screen', "attendance-location-missing", "error")
            /\ screen'.nextAllowedCaptureAtRef = now + 10000
            /\ screen'.isProcessingRef /\ screen'.isProcessing
            /\ \E x \in screen'.timeouts : x.kind = "release" /\ x.due = now + 1000]_vars
    /\ [][last'.op = "release" =>
            /\ \E x \in screen.timeouts \ screen'.timeouts :
                  x.kind = "release" /\ now = x.armed + 1000
            /\ ~screen'.isProcessingRef /\ ~screen'.isProcessing]_vars
    /\ [](\A f \in PendingOf(screen, "timeout", "request") : f.geo \/ screen.geolocation)

\* fetchGeolocation returned null with the camera open, and the flag is held
\* for the release timer
C18_Witness ==
    /\ last.op = "captureGeo" /\ last.outcome = "nopos"
    /\ screen.started /\ screen.cameraActive
    /\ screen.isProcessingRef
    /\ Capturing(screen) = 0
    /\ \E x \in screen.timeouts : x.kind = "release" /\ x.due = now + 1000

\* C19: when a poll tick finds no face, every pending stable-face capture
\* timeout is cancelled (captureTimeoutRef is null and no capture timeout is
\* left to fire) and faceDetected is false.
C19_NoFaceCancelsTimeout ==
    [][last'.op = "poll" /\ last'.outcome = "" =>
          /\ screen'.captureTimeoutRef = NoTimeout
          /\ ~screen'.faceDetectedRef /\ ~screen'.faceDetected
          /\ CaptureTimeouts(screen') = {}]_vars

-----------------------------------------------------------------------------
(* Properties of the buttons *)

\* C21: handleRetry empties the toast list, clears isProcessingRef and
\* isProcessing, sets lastCaptureTime and nextAllowedCaptureAt to 0, stoppedState
\* to idle and cameraActive to true, and leaves started alone; the first poll
\* tick that detects a face after it finds the cooldown gate open.
C21_RetryResetsLoop ==
    /\ [][last'.op = "handleRetry" =>
            /\ screen'.toasts = <<>>
            /\ ~screen'.isProcessingRef /\ ~screen'.isProcessing
            /\ screen'.lastCaptureTimeRef = 0
            /\ screen'.nextAllowedCaptureAtRef = 0
            /\ screen'.stoppedState = "idle"
            /\ screen'.cameraActive
            /\ screen'.started = screen.started]_vars
    /\ [][last'.op = "poll" /\ last'.outcome = "face" /\ screen.retried =>
            allowedByTime(screen, now)]_vars

\* handleStart found the permission granted, at its first check or after the
\* request
StartGranted ==
    \/ last'.op = "handleStartPermission" /\ last'.outcome = "granted"
    \/ last'.op = "handleStartFetched" /\ last'.outcome # "denied"

\* C22: handleStart starts the camera only with the location permission.
\* Still denied after the request: the 'location-required' error toast is
\* requested and started, cameraActive, stoppedState and both timestamps stay as
\* they were.  Granted: started and cameraActive are true and stoppedState is
\* idle, with the position fetch still unresolved or failed, and (the Start
\* button exists only while started is false) both timestamps are 0.
C22_StartNeedsPermission ==
    /\ [][last'.op = "handleStartFetched" /\ last'.outcome = "denied" =>
            /\ ToastRequested(screen, screen', "location-required", "error")
            /\ ~osLocation'
            /\ screen'.started = screen.started
            /\ screen'.cameraActive = screen.cameraActive
            /\ screen'.stoppedState = screen.stoppedState
            /\ screen'.lastCaptureTimeRef = screen.lastCaptureTimeRef
            /\ screen'.nextAllowedCaptureAtRef = screen.nextAllowedCaptureAtRef]_vars
    /\ [][StartGranted =>
            /\ osLocation'
            /\ screen'.started /\ screen'.cameraActive
            /\ screen'.stoppedState = "idle"
            /\ screen'.lastCaptureTimeRef = 0
            /\ screen'.nextAllowedCaptureAtRef = 0
            /\ last'.op = "handleStartPermission" =>
                  /\ BackgroundFetch \in BagToSet(screen'.pending)
                  /\ screen'.geolocation = screen.geolocation
            /\ last'.outcome = "nopos" => screen'.geolocation = screen.geolocation]_vars
    /\ [][~screen.started /\ screen'.started => osLocation']_vars

\* Start pressed after an error stop: the camera runs again with the
\* timestamps reset and the position fetch unresolved
C22_Witness ==
    /\ last.op = "handleStartPermission" /\ last.outcome = "granted"
    /\ screen.started /\ screen.cameraActive
    /\ screen.lastToastTimeRef["attendance-error"] # 0
    /\ screen.nextAllowedCaptureAtRef = 0
    /\ BackgroundFetch \in BagToSet(screen.pending)

-----------------------------------------------------------------------------
(* Properties of the catch block's toast text *)

\* response.data.error as a non-empty string, or "" when the body has none
ErrorString(error) ==
    IF error.response /\ \E i \in DOMAIN error.data :
                            error.data[i].k = "error" /\ ~error.data[i].list
    THEN (error.data[CHOOSE i \in DOMAIN error.data : error.data[i].k = "error"]).v[1]
    ELSE ""

\* The message of the toast shown now
ShownNow(text) ==
    \E i \in DOMAIN screen.toasts :
       screen.toasts[i].id = now /\ screen.toasts[i].message = text

\* showToast with the key adds no toast now: the last toast shown with the
\* key is less than 3000 ms old
Debounced(s, key) ==
    s.lastToastTimeRef[key] # 0 /\ now - s.lastToastTimeRef[key] < 3000

\* The step added one toast, with this message
ToastAdded(s, t, text) ==
    /\ Len(t.toasts) = Len(s.toasts) + 1
    /\ t.toasts[Len(t.toasts)].message = text

\* C7: the toast text of captureAndSend's catch block is a function of the
\* error: the two known backend strings have their own texts, another
\* non-empty error string e gives "Error: e", a body without an error field
\* gives "Connection Error: " and its first field's value (first element of a
\* list), and no response gives "Connection Error: Server connection failed".
\* (The text is read off the toast that the catch block adds, so off the
\* calls of showToast that the key's debounce window does not swallow.)
C7_ErrorToastText ==
    [][ CaughtError' /\ ~Debounced(screen, "attendance-error") =>
          LET error == last'.error
              e == ErrorString(error)
              noErrorField == \A i \in DOMAIN error.data : error.data[i].k # "error"
              Toast(text) == ToastAdded(screen, screen', text)
          IN  /\ e = "No face detected" =>
                    Toast("No Face Found: Please ensure your face is clearly visible in the frame")
              /\ e = "Face not recognized" =>
                    Toast("Unregistered Face: Your face is not registered in the system. Please contact administrator.")
              /\ e \notin {"", "No face detected", "Face not recognized"} =>
                    Toast("Error: " \o e)
              /\ error.response /\ noErrorField /\ Len(error.data) > 0 =>
                    Toast("Connection Error: " \o error.data[1].v[1])
              /\ ~error.response =>
                    Toast("Connection Error: Server connection failed")
      ]_vars

\* markAttendance was rejected with "Face not recognized" after another field
C7_Witness ==
    /\ last.op = "captureError"
    /\ last.error = HttpError(400, <<Field("detail", ""), Field("error", "Face not recognized")>>)
    /\ ShownNow("Unregistered Face: Your face is not registered in the system. Please contact administrator.")

-----------------------------------------------------------------------------
(* Properties of showToast *)

\* The step called showToast with the key
KeyedCall(key) ==
    CASE key = "attendance-location-missing" ->
            last'.op = "captureGeo" /\ last'.outcome # "ok"
      [] key = "attendance-unknown" ->
            last'.op = "captureResponse" /\ last'.outcome = "unexpected"
      [] key = "attendance-error" -> CaughtError'
      [] key = "location-required" ->
            last'.op = "handleStartFetched" /\ last'.outcome = "denied"

\* The step called showToast without a key
KeylessCall ==
    \/ last'.op = "capturePhoto" /\ last'.outcome = "null"
    \/ last'.op = "captureResponse" /\ last'.outcome = "attendance"

\* C20: keyed toasts are debounced.  A showToast call with a key adds no toast
\* and leaves the key's recorded time alone when the key's last displayed toast
\* is less than 3000 ms old, and else adds the toast and records the time; the
\* recorded time of a key is the time of its last displayed toast and only
\* moves by 3000 ms or more, so two displayed toasts of one key are at least
\* 3000 ms apart; a call without a key always adds its toast.
C20_KeyedToastsDebounced ==
    /\ [][\A key \in ToastKeys :
            /\ KeyedCall(key) => ToastRequested(screen, screen', key, "error")
            /\ screen'.lastToastTimeRef[key] \notin {0, screen.lastToastTimeRef[key]} =>
                  /\ screen'.lastToastTimeRef[key] = now
                  /\ screen.lastToastTimeRef[key] # 0 =>
                        now - screen.lastToastTimeRef[key] >= 3000]_vars
    /\ [][KeylessCall =>
            /\ Len(screen'.toasts) = Len(screen.toasts) + 1
            /\ screen'.toasts[Len(screen'.toasts)].id = now
            /\ screen'.lastToastTimeRef = screen.lastToastTimeRef]_vars

\* The catch block asked for its toast less than 3000 ms after the last
\* 'attendance-error' toast was shown: no toast was added
C20_Witness ==
    /\ CaughtError
    /\ screen.lastToastTimeRef["attendance-error"] # 0
    /\ now - screen.lastToastTimeRef["attendance-error"] \in 1..2999
    /\ \A i \in DOMAIN screen.toasts : screen.toasts[i].id # now

-----------------------------------------------------------------------------
(* Sign-in, sign-out and the requests of the signed-in screens *)

\* Requests of the signed-in screens that may be unanswered at once
MaxRequests == 2

\* What a request can fail with
AuthErrors == {ErrUnauthorized, ErrForbidden, ErrServer, ErrNoFace, NoResponseError}

\* response.data of POST /auth/login/: a record with a token, one without
LoginResponses ==
    { Session,
      Obj(<< <<"name", "Asha">>, <<"role", "employee">> >>) }

\* What AsyncStorage holds when the app starts: nothing, the record of an
\* earlier sign-in, a record without a token, text that is not JSON
StoredAtLaunch ==
    { EmptyStorage,
      setAuthData(EmptyStorage, Session),
      setAuthData(EmptyStorage, Obj(<< <<"name", "Asha">> >>)),
      setAuthData(EmptyStorage, Obj(<< <<"token", "">>, <<"name", "Asha">> >>)),
      setItem(EmptyStorage, AUTH_STORAGE_KEY, <<Tok("{", "")>>) }

\* A pending await of an auth flow: the async function, where it waits, the
\* error the response interceptor holds, the record login was called with,
\* the Authorization headers of the request
Flow(fn, pc, error, data) ==
    [fn |-> fn, pc |-> pc, error |-> error, data |-> data, headers |-> NoHeaders]
Waiting(fn, pc) == Flow(fn, pc, NoResponseError, Null)
Request(fn, pc, headers) == [Waiting(fn, pc) EXCEPT !.headers = headers]

FlowsAt(fns, pc) == {f \in BagToSet(flows) : f.fn \in fns /\ f.pc = pc}
FlowCount(fns) ==
    BagCardinality([f \in {g \in DOMAIN flows : g.fn \in fns} |-> flows[f]])

\* The handler that ran last, the error it handled, and the auth state and
\* the storage as it found them
AuthRan(op, outcome, error) ==
    [op |-> op, outcome |-> outcome, error |-> error, auth |-> auth, storage |-> storage]

AuthProviderMounted == logoutCallback

LoopUnchanged == UNCHANGED <<now, screen, osLocation, presses>>

\* RootNavigator renders with the new context value: the attendance screen
\* and its drawer are mounted, stay, or are unmounted
NavigatorRender ==
    /\ screen' = IF RootNavigator(context') # "attendance" THEN Unmounted
                 ELSE IF screen.mounted THEN screen ELSE InitScreen
    /\ drawer' = IF RootNavigator(context') # "attendance"
                 THEN [drawer EXCEPT !.isDrawerOpen = FALSE]
                 ELSE drawer
    /\ UNCHANGED <<now, osLocation, presses, navigation>>

ShellUnchanged == UNCHANGED <<now, screen, osLocation, presses, drawer, navigation>>

AuthStateUnchanged == UNCHANGED <<auth, loading, context, defaults>>

\* AuthProvider mounts: its effects start initAuth and register the callback
mountAuthProvider ==
    /\ ~AuthProviderMounted
    /\ logoutCallback' = TRUE
    /\ flows' = flows (+) SetToBag({Waiting("initAuth", "getAuthData")})
    /\ last' = AuthRan("mountAuthProvider", "", NoResponseError)
    /\ UNCHANGED storage
    /\ AuthStateUnchanged
    /\ ShellUnchanged

\* initAuth resumes from getAuthData
initAuth ==
    /\ \E f \in FlowsAt({"initAuth"}, "getAuthData") :
          LET r == getAuthData(storage)
          IN  /\ storage' = r.st
              /\ AuthProviderRender(r.value, FALSE)
              /\ flows' = flows (-) SetToBag({f})
    /\ NavigatorRender
    /\ last' = AuthRan("initAuth", "", NoResponseError)
    /\ UNCHANGED logoutCallback

\* LoginScreen's button (disabled while its handleLogin runs): loginApi
\* issues the request with the default headers and enters the request
\* interceptor
handleLogin ==
    /\ RootNavigator(context) = "login" /\ ~drawer.alert
    /\ FlowCount({"login"}) = 0
    /\ flows' = flows (+) SetToBag({Request("login", "interceptor", defaults)})
    /\ last' = AuthRan("handleLogin", "", NoResponseError)
    /\ UNCHANGED <<storage, logoutCallback>>
    /\ AuthStateUnchanged
    /\ ShellUnchanged

\* A signed-in screen calls an API function: the request is issued with the
\* default headers and enters the request interceptor
apiRequest ==
    /\ ShowsAttendance
    /\ FlowCount({"api"}) < MaxRequests
    /\ flows' = flows (+) SetToBag({Request("api", "interceptor", defaults)})
    /\ last' = AuthRan("apiRequest", "", NoResponseError)
    /\ UNCHANGED <<storage, logoutCallback>>
    /\ AuthStateUnchanged
    /\ ShellUnchanged

\* Mutant: an interceptor that always writes the stored token into both headers
interceptHeadersOverwrites(h, a) ==
    IF ~Truthy(a, "token") THEN h
    ELSE Headers(TokenValue(a), TokenValue(a))

\* The headers the request interceptor leaves, given the stored record
interceptHeaders(h, a) ==
    IF ~Truthy(a, "token") THEN h
    ELSE IF h.Authorization = "" /\ h.authorization = ""
    THEN Headers(TokenValue(a), TokenValue(a))
    ELSE Headers(IF h.Authorization = "" THEN h.authorization ELSE h.Authorization,
                 IF h.authorization = "" THEN h.Authorization ELSE h.authorization)

\* The request interceptor resumes from getAuthData and the request is sent
requestInterceptor ==
    /\ \E f \in FlowsAt({"login", "api"}, "interceptor") :
          LET r == getAuthData(storage)
              h == interceptHeaders(f.headers, r.value)
          IN  /\ storage' = r.st
              /\ flows' = (flows (-) SetToBag({f})) (+) SetToBag({Request(f.fn, "request", h)})
              /\ last' = AuthRan("requestInterceptor", h.Authorization, NoResponseError)
    /\ UNCHANGED logoutCallback
    /\ AuthStateUnchanged
    /\ ShellUnchanged

\* A request of a signed-in screen is answered
apiResponse ==
    /\ \E f \in FlowsAt({"api"}, "request") : flows' = flows (-) SetToBag({f})
    /\ last' = AuthRan("apiResponse", "", NoResponseError)
    /\ UNCHANGED <<storage, logoutCallback>>
    /\ AuthStateUnchanged
    /\ ShellUnchanged

\* loginApi is answered: handleLogin calls login(response.data), which calls
\* setAuthData(data)
loginResponse ==
    /\ \E f \in FlowsAt({"login"}, "request") : \E data \in LoginResponses :
          /\ storage' = setAuthData(storage, data)
          /\ flows' = (flows (-) SetToBag({f}))
                      (+) SetToBag({Flow("login", "setAuthData", NoResponseError, data)})
    /\ last' = AuthRan("loginResponse", "", NoResponseError)
    /\ UNCHANGED logoutCallback
    /\ AuthStateUnchanged
    /\ ShellUnchanged

\* login resumes from setAuthData and reads the record back
loginStored ==
    /\ \E f \in FlowsAt({"login"}, "setAuthData") :
          /\ storage' = getAuthData(storage).st
          /\ flows' = (flows (-) SetToBag({f}))
                      (+) SetToBag({[f EXCEPT !.pc = "getAuthData"]})
    /\ last' = AuthRan("loginStored", "", NoResponseError)
    /\ UNCHANGED logoutCallback
    /\ AuthStateUnchanged
    /\ ShellUnchanged

\* login resumes from the read back: setAuth(data), the default headers
loginDone ==
    /\ \E f \in FlowsAt({"login"}, "getAuthData") :
          /\ AuthProviderRender(f.data, loading)
          /\ flows' = flows (-) SetToBag({f})
    /\ NavigatorRender
    /\ last' = AuthRan("loginDone", "", NoResponseError)
    /\ UNCHANGED <<storage, logoutCallback>>

\* A request fails: the rejected branch of the response interceptor up to its
\* await of clearAuthData, or to its end when the error is no 401 or 403
requestFails ==
    /\ \E f \in FlowsAt({"login", "api"}, "request") : \E error \in AuthErrors :
          IF IsAuthFailure(error)
          THEN /\ storage' = clearAuthData(storage)
               /\ flows' = (flows (-) SetToBag({f}))
                           (+) SetToBag({Flow(f.fn, "clearAuthData", error, Null)})
               /\ last' = AuthRan("responseError", "", error)
          ELSE /\ storage' = storage
               /\ flows' = flows (-) SetToBag({f})
               /\ last' = AuthRan("responseError", "rejected", error)
    /\ UNCHANGED logoutCallback
    /\ AuthStateUnchanged
    /\ ShellUnchanged

\* The response interceptor resumes from clearAuthData: the logout callback,
\* then Promise.reject(error)
interceptorCleared ==
    /\ \E f \in FlowsAt({"login", "api"}, "clearAuthData") :
          /\ LET a == invokeLogoutCallback(auth, logoutCallback)
             IN  IF a = auth THEN AuthStateUnchanged ELSE AuthProviderRender(a, loading)
          /\ flows' = flows (-) SetToBag({f})
          /\ last' = AuthRan("logoutCallback", "rejected", f.error)
    /\ NavigatorRender
    /\ UNCHANGED <<storage, logoutCallback>>

\* The screens of the sidebar's menu
MenuScreens == {"AttendanceTab"}

\* setIsDrawerOpen(!isDrawerOpen), with isDrawerOpen as the render saw it
toggled(d, rendered) == [d EXCEPT !.isDrawerOpen = ~rendered]

\* A swipe from the left edge opens the drawer
openDrawer ==
    /\ ShowsAttendance /\ ~drawer.isDrawerOpen /\ ~drawer.alert
    /\ drawer' = [drawer EXCEPT !.isDrawerOpen = TRUE]
    /\ last' = AuthRan("openDrawer", "", NoResponseError)
    /\ UNCHANGED <<storage, logoutCallback, flows, now, screen, osLocation, presses, navigation>>
    /\ AuthStateUnchanged

\* The overlay, the sidebar's close button or the back button: toggleDrawer
toggleDrawer ==
    /\ ShowsAttendance /\ drawer.isDrawerOpen /\ ~drawer.alert
    /\ drawer' = toggled(drawer, drawer.isDrawerOpen)
    /\ last' = AuthRan("toggleDrawer", "", NoResponseError)
    /\ UNCHANGED <<storage, logoutCallback, flows, now, screen, osLocation, presses, navigation>>
    /\ AuthStateUnchanged

\* Mutant: a drawer that stays as it is when a menu item is selected
handleNavigateStaysOpen(d, selected) == d

\* DrawerNavigator.handleNavigate: onNavigate(screen) (RootNavigator passes a
\* function that does nothing), then setIsDrawerOpen(false)
handleNavigate(d, selected) == [d EXCEPT !.isDrawerOpen = FALSE]

\* A menu item of the sidebar is pressed
selectMenuItem ==
    /\ ShowsAttendance /\ drawer.isDrawerOpen /\ ~drawer.alert
    /\ \E selected \in MenuScreens :
          /\ drawer' = handleNavigate(drawer, selected)
          /\ last' = AuthRan("handleNavigate", selected, NoResponseError)
    /\ UNCHANGED <<storage, logoutCallback, flows, now, screen, osLocation, presses, navigation>>
    /\ AuthStateUnchanged

\* The sidebar's Logout is pressed: the alert asks for confirmation.  (A
\* second Logout while logout() is still running is not explored.)
handleLogout ==
    /\ ShowsAttendance /\ drawer.isDrawerOpen /\ ~drawer.alert
    /\ FlowCount({"logout"}) = 0
    /\ drawer' = [drawer EXCEPT !.alert = TRUE]
    /\ last' = AuthRan("handleLogout", "", NoResponseError)
    /\ UNCHANGED <<storage, logoutCallback, flows, now, screen, osLocation, presses, navigation>>
    /\ AuthStateUnchanged

\* The alert's Cancel
alertCancel ==
    /\ drawer.alert
    /\ drawer' = [drawer EXCEPT !.alert = FALSE]
    /\ last' = AuthRan("alertCancel", "", NoResponseError)
    /\ UNCHANGED <<storage, logoutCallback, flows, now, screen, osLocation, presses, navigation>>
    /\ AuthStateUnchanged

\* The alert's Logout: logout() calls clearAuthData, and onCloseSidebar is
\* the toggleDrawer of the render that showed the alert (the drawer was open)
logout ==
    /\ drawer.alert
    /\ storage' = clearAuthData(storage)
    /\ flows' = flows (+) SetToBag({Waiting("logout", "clearAuthData")})
    /\ drawer' = IF ShowsAttendance
                 THEN [toggled(drawer, TRUE) EXCEPT !.alert = FALSE]
                 ELSE [drawer EXCEPT !.alert = FALSE]
    /\ last' = AuthRan("logout", "", NoResponseError)
    /\ UNCHANGED <<logoutCallback, now, screen, osLocation, presses, navigation>>
    /\ AuthStateUnchanged

\* logout resumes from clearAuthData: setAuth(null)
logoutDone ==
    /\ \E f \in FlowsAt({"logout"}, "clearAuthData") :
          /\ IF auth = Null THEN AuthStateUnchanged ELSE AuthProviderRender(Null, loading)
          /\ flows' = flows (-) SetToBag({f})
    /\ NavigatorRender
    /\ last' = AuthRan("logoutDone", "", NoResponseError)
    /\ UNCHANGED <<storage, logoutCallback>>

\* The app is launched: httpClient's module is loaded, nothing is mounted
InitAuth ==
    /\ now = StartTime
    /\ screen = Unmounted
    /\ osLocation = FALSE
    /\ auth = Null
    /\ loading = TRUE
    /\ context = AuthContextValue(Null, TRUE)
    /\ defaults = NoHeaders
    /\ drawer = DrawerClosed
    /\ navigation = NoNavigation
    /\ storage \in StoredAtLaunch
    /\ logoutCallback = FALSE
    /\ flows = EmptyBag
    /\ presses = 0
    /\ last = AuthRan("launch", "", NoResponseError)

NextAuth ==
    \/ mountAuthProvider
    \/ initAuth
    \/ handleLogin
    \/ apiRequest
    \/ requestInterceptor
    \/ apiResponse
    \/ loginResponse
    \/ loginStored
    \/ loginDone
    \/ requestFails
    \/ interceptorCleared
    \/ openDrawer
    \/ toggleDrawer
    \/ selectMenuItem
    \/ handleLogout
    \/ alertCancel
    \/ logout
    \/ logoutDone

SpecAuth == InitAuth /\ [][NextAuth]_vars

\* No key of the storage holds an item
NothingStored(st) == \A k \in StorageKeys : st[k] = NoItem

\* C3: when a request fails with HTTP status 401 or 403 the response
\* interceptor removes the stored auth blob, and only then, resuming from
\* clearAuthData, invokes the registered logout callback (the in-memory auth
\* becomes null and isAuthenticated false) and rejects with the error it was
\* given; for every other failure it leaves the stored and the in-memory auth
\* as they are and rejects with the error.
C3_AuthFailureLogsOut ==
    [][ /\ last'.op = "responseError" /\ last'.error.response
                                     /\ last'.error.status \in {401, 403} =>
              /\ NothingStored(storage')
              /\ auth' = auth
              /\ \E f \in DOMAIN flows' :
                    /\ f.pc = "clearAuthData" /\ f.error = last'.error
                    /\ flows'[f] > (IF f \in DOMAIN flows THEN flows[f] ELSE 0)
        /\ last'.op = "responseError" /\ ~(last'.error.response
                                          /\ last'.error.status \in {401, 403}) =>
              /\ storage' = storage
              /\ auth' = auth
              /\ last'.outcome = "rejected"
        /\ last'.op = "logoutCallback" =>
              /\ \E f \in DOMAIN flows :
                    /\ f.pc = "clearAuthData" /\ f.error = last'.error
                    /\ f.error.status \in {401, 403}
                    /\ flows' = flows (-) SetToBag({f})
              /\ logoutCallback => auth' = Null /\ ~isAuthenticated(auth')
              /\ ~logoutCallback => auth' = auth
              /\ storage' = storage
              /\ last'.outcome = "rejected"
      ]_vars

\* A request of a signed-in session was answered 403: the blob was removed,
\* and the callback has now signed the session out
C3_Witness ==
    /\ last.op = "logoutCallback"
    /\ last.error = ErrForbidden
    /\ isAuthenticated(last.auth)
    /\ auth = Null
    /\ NothingStored(storage)

\* The record has a token that is not the empty string
HasToken(a) ==
    a.obj /\ \E i \in DOMAIN a.fields : a.fields[i][1] = "token" /\ a.fields[i][2] # ""

\* The record that a raw item of the storage holds has no token
StoredWithoutToken(raw) == JSONparse(raw).ok /\ ~HasToken(JSONparse(raw).value)

\* C11: the isAuthenticated that AuthContext hands out is true exactly when
\* the in-memory auth record has a non-empty token, in every state; and when
\* initAuth ends on a storage without a record, or with a record without a
\* token, loading is false and isAuthenticated is false.
C11_AuthenticatedIffToken ==
    /\ context.isAuthenticated <=> HasToken(auth)
    /\ last.op = "initAuth" /\ (\/ last.storage[AUTH_STORAGE_KEY] = NoItem
                               \/ StoredWithoutToken(last.storage[AUTH_STORAGE_KEY])) =>
          ~context.loading /\ ~context.isAuthenticated

\* The app started on a stored record with an empty token: the record is in
\* memory and the user is not authenticated
C11_Witness ==
    /\ last.op = "initAuth"
    /\ StoredWithoutToken(last.storage[AUTH_STORAGE_KEY])
    /\ auth = Obj(<< <<"token", "">>, <<"name", "Asha">> >>)
    /\ ~context.loading /\ ~context.isAuthenticated

C13_LogoutEndsSession ==
    [][ /\ last'.op = "logout" =>
              /\ NothingStored(storage')
              /\ ~drawer'.isDrawerOpen
        /\ last'.op = "logoutDone" =>
              /\ auth' = Null
              /\ ~context'.isAuthenticated
              /\ RootNavigator(context') = "login"
              /\ ~screen'.mounted
              /\ defaults' = NoHeaders
        /\ NothingStored(storage) /\ ~NothingStored(storage') => last'.op = "loginResponse"
        /\ defaults = NoHeaders /\ defaults' # NoHeaders => last'.op \in {"loginDone", "initAuth"}
        /\ last'.op \in {"handleLogin", "apiRequest"} /\ defaults = NoHeaders =>
              \A f \in DOMAIN flows' :
                 f.pc = "interceptor" /\ f.headers # NoHeaders =>
                    f \in DOMAIN flows /\ flows'[f] = flows[f]
        /\ last'.op = "requestInterceptor" /\ NothingStored(storage) =>
              \E f \in DOMAIN flows :
                 /\ f.pc = "interceptor"
                 /\ flows' = (flows (-) SetToBag({f}))
                             (+) SetToBag({[f EXCEPT !.pc = "request"]})
      ]_vars

\* A signed-in user has logged out
C13_Witness ==
    /\ last.op = "logoutDone"
    /\ HasToken(last.auth)
    /\ auth = Null
    /\ defaults = NoHeaders
    /\ NothingStored(storage)
    /\ RootNavigator(context) = "login"
    /\ ~screen.mounted

\* The states of a drawer
DrawerStates == [isDrawerOpen : BOOLEAN, alert : BOOLEAN]

\* C14: selecting a menu item leaves the drawer closed, whatever its state
\* was: handleNavigate hands the selected screen to onNavigate, once, and
\* sets isDrawerOpen to false; and toggleDrawer inverts isDrawerOpen.
C14_MenuItemClosesDrawer ==
    [][ /\ last'.op = "handleNavigate" =>
              /\ drawer.isDrawerOpen /\ ~drawer'.isDrawerOpen
              /\ last'.outcome \in MenuScreens
              /\ UNCHANGED <<auth, storage, screen, flows>>
        /\ last'.op = "toggleDrawer" => drawer'.isDrawerOpen = ~drawer.isDrawerOpen
        /\ \A d \in DrawerStates :
              /\ \A selected \in MenuScreens : ~handleNavigate(d, selected).isDrawerOpen
              /\ toggled(d, d.isDrawerOpen).isDrawerOpen = ~d.isDrawerOpen
      ]_vars

\* The menu item was pressed in the open drawer, which is closed now
C14_Witness ==
    /\ last.op = "handleNavigate"
    /\ last.outcome = "AttendanceTab"
    /\ ~drawer.isDrawerOpen
    /\ screen.mounted

-----------------------------------------------------------------------------
(* utils/session called in sequence *)

\* The records setAuthData is called with: the fields of AuthData in an
\* order, each present or not, the token also empty
AuthRecords ==
    {Obj(t \o n \o r) :
        t \in {<<>>, << <<"token", "">> >>, << <<"token", "9f2c">> >>},
        n \in {<<>>, << <<"name", "Asha">> >>, << <<"name", "token">> >>},
        r \in {<<>>, << <<"role", "employee">> >>}}
    \cup {Session, Obj(<< <<"role", "admin">>, <<"token", "9f2c">> >>)}

\* What the storage may hold before the calls
StoredBefore ==
    StoredAtLaunch \cup {setItem(EmptyStorage, AUTH_STORAGE_KEY, <<Tok("null", "")>>)}

\* The call that returned last, its argument, the value it returned, and the
\* call before it
Called(op, arg, value) ==
    [op |-> op, arg |-> arg, value |-> value,
     after |-> [op |-> last.op, arg |-> last.arg]]

SessionUnchanged ==
    UNCHANGED <<now, screen, osLocation, auth, loading, logoutCallback, flows, presses,
                context, defaults, drawer, navigation>>

callSetAuthData ==
    /\ \E a \in AuthRecords \cup {Null} :
          /\ storage' = setAuthData(storage, a)
          /\ last' = Called("setAuthData", a, Null)
    /\ SessionUnchanged

callClearAuthData ==
    /\ storage' = clearAuthData(storage)
    /\ last' = Called("clearAuthData", Null, Null)
    /\ SessionUnchanged

callGetAuthData ==
    /\ LET r == getAuthData(storage)
       IN  /\ storage' = r.st
           /\ last' = Called("getAuthData", Null, r.value)
    /\ SessionUnchanged

InitSession ==
    /\ now = StartTime
    /\ screen = Unmounted
    /\ osLocation = FALSE
    /\ auth = Null
    /\ loading = TRUE
    /\ context = AuthContextValue(Null, TRUE)
    /\ defaults = NoHeaders
    /\ drawer = DrawerClosed
    /\ navigation = NoNavigation
    /\ storage \in StoredBefore
    /\ logoutCallback = FALSE
    /\ flows = EmptyBag
    /\ presses = 0
    /\ last = [op |-> "launch", arg |-> Null, value |-> Null,
               after |-> [op |-> "", arg |-> Null]]

NextSession == callSetAuthData \/ callClearAuthData \/ callGetAuthData

SpecSession == InitSession /\ [][NextSession]_vars

\* C10: getAuthData right after setAuthData(a) with a record a returns a
\* record equal to a (the write under 'trueface_auth' is not removed again as
\* a legacy key), and right after setAuthData(null) or clearAuthData it
\* returns null.
C10_AuthBlobRoundTrip ==
    last.op = "getAuthData" =>
        /\ last.after.op = "setAuthData" /\ last.after.arg.obj =>
              last.value = last.after.arg
        /\ last.after.op = "setAuthData" /\ ~last.after.arg.obj => last.value = Null
        /\ last.after.op = "clearAuthData" => last.value = Null

\* The session record was written and read back
C10_Witness ==
    /\ last.op = "getAuthData"
    /\ last.after = [op |-> "setAuthData", arg |-> Session]
    /\ last.value = Session
    /\ JSONparse(storage[AUTH_STORAGE_KEY]).value = Session

-----------------------------------------------------------------------------
(* utils/screenNavigationService *)

\* navigateToScreen calls explored
MaxNavigations == 3

ScreenNames == {"AttendanceTab", "DashboardTab"}

\* Mutant: a service that keeps the callback registered first
setScreenNavigationCallbackOnce(nav, callback) ==
    IF nav.navigationCallback = 0
    THEN [nav EXCEPT !.navigationCallback = callback]
    ELSE nav

setScreenNavigationCallback(nav, callback) ==
    [nav EXCEPT !.navigationCallback = callback]

\* navigateToScreen: the callback's invocation is recorded with the callback
navigateToScreen(nav, screenName) ==
    IF nav.navigationCallback # 0
    THEN [nav EXCEPT !.invoked[nav.navigationCallback] = Append(@, screenName)]
    ELSE nav

Invocations(nav) == Len(nav.invoked[1]) + Len(nav.invoked[2])

\* The call that returned last, its argument, and the callback that was
\* registered last (0: none yet)
Navigated(op, arg, latest) == [op |-> op, arg |-> arg, latest |-> latest]

NavigationUnchanged ==
    UNCHANGED <<now, screen, osLocation, auth, loading, storage, logoutCallback, flows,
                presses, context, defaults, drawer>>

callSetScreenNavigationCallback ==
    /\ \E callback \in Callbacks :
          /\ navigation' = setScreenNavigationCallback(navigation, callback)
          /\ last' = Navigated("setScreenNavigationCallback", callback, callback)
    /\ NavigationUnchanged

callNavigateToScreen ==
    /\ Invocations(navigation) < MaxNavigations
    /\ \E screenName \in ScreenNames :
          /\ navigation' = navigateToScreen(navigation, screenName)
          /\ last' = Navigated("navigateToScreen", screenName, last.latest)
    /\ NavigationUnchanged

InitNavigation ==
    /\ now = StartTime
    /\ screen = Unmounted
    /\ osLocation = FALSE
    /\ auth = Null
    /\ loading = TRUE
    /\ context = AuthContextValue(Null, TRUE)
    /\ defaults = NoHeaders
    /\ drawer = DrawerClosed
    /\ navigation = NoNavigation
    /\ storage = EmptyStorage
    /\ logoutCallback = FALSE
    /\ flows = EmptyBag
    /\ presses = 0
    /\ last = Navigated("load", "", 0)

NextNavigation == callSetScreenNavigationCallback \/ callNavigateToScreen

SpecNavigation == InitNavigation /\ [][NextNavigation]_vars

\* C15: the service holds one callback.  navigateToScreen(name) invokes the
\* callback registered last, once, with name, and no other callback (a
\* replaced callback is never invoked again); with no callback registered it
\* invokes nothing and returns.
C15_OneNavigationCallback ==
    [][ last'.op = "navigateToScreen" =>
          /\ last.latest # 0 =>
                /\ navigation'.invoked[last.latest] =
                      Append(navigation.invoked[last.latest], last'.arg)
                /\ \A c \in Callbacks \ {last.latest} :
                      navigation'.invoked[c] = navigation.invoked[c]
          /\ last.latest = 0 => navigation'.invoked = navigation.invoked
          /\ navigation'.navigationCallback = navigation.navigationCallback
      ]_vars

\* The second callback replaced the first, which had been invoked, and took
\* the next navigation
C15_Witness ==
    /\ last.op = "navigateToScreen"
    /\ last.latest = 2
    /\ navigation.invoked[1] = <<"DashboardTab">>
    /\ navigation.invoked[2] = <<"AttendanceTab">>

-----------------------------------------------------------------------------
(* httpClient's request interceptor on requests that bring their own headers *)

\* What a caller of httpClient puts into an Authorization header: nothing, the
\* token of the session, a credential of its own
CallerHeaderValues == {"", TokenValue(Session), "Bearer 41aa"}

CallerHeaders == {Headers(upper, lower) : upper, lower \in CallerHeaderValues}

\* A caller sends a request through httpClient with config.headers of its own:
\* the request enters the request interceptor
sendRequest ==
    /\ FlowCount({"api"}) < MaxRequests
    /\ \E h \in CallerHeaders :
          /\ flows' = flows (+) SetToBag({Request("api", "interceptor", h)})
          /\ last' = AuthRan("sendRequest", h.Authorization, NoResponseError)
    /\ UNCHANGED <<storage, logoutCallback>>
    /\ AuthStateUnchanged
    /\ ShellUnchanged

\* httpClient's module is loaded and the storage holds what an earlier run left
InitRequest ==
    /\ now = StartTime
    /\ screen = Unmounted
    /\ osLocation = FALSE
    /\ auth = Null
    /\ loading = TRUE
    /\ context = AuthContextValue(Null, TRUE)
    /\ defaults = NoHeaders
    /\ drawer = DrawerClosed
    /\ navigation = NoNavigation
    /\ storage \in StoredBefore
    /\ logoutCallback = FALSE
    /\ flows = EmptyBag
    /\ presses = 0
    /\ last = AuthRan("launch", "", NoResponseError)

NextRequest ==
    \/ sendRequest
    \/ requestInterceptor
    \/ apiResponse

SpecRequest == InitRequest /\ [][NextRequest]_vars

\* The headers r are what the interceptor is to leave on a request that came
\* with the headers h while the stored record is a
Intercepted(h, a, r) ==
    /\ ~HasToken(a) => r = h
    /\ HasToken(a) =>
          /\ h.Authorization = "" /\ h.authorization = "" =>
                \E i \in DOMAIN a.fields :
                    /\ a.fields[i][1] = "token"
                    /\ r = Headers("Token " \o a.fields[i][2], "Token " \o a.fields[i][2])
          /\ h.Authorization # "" /\ h.authorization = "" =>
                r.authorization = h.Authorization
          /\ h.Authorization = "" /\ h.authorization # "" =>
                r.Authorization = h.authorization
          /\ h.Authorization # "" => r.Authorization = h.Authorization
          /\ h.authorization # "" => r.authorization = h.authorization

\* C23: the request interceptor, for every request sent through httpClient.
\* While the stored auth record has a token: a request without Authorization
\* and authorization gets both as "Token " + token, a request with one of them
\* gets the other with the same value, and a header that is present is not
\* overwritten.  Without a stored token the headers stay as they are.
C23_InterceptorHeaders ==
    [][last'.op = "requestInterceptor" =>
          \E f \in FlowsAt({"api"}, "interceptor") : \E r \in CallerHeaders :
              /\ flows' = (flows (-) SetToBag({f})) (+) SetToBag({Request("api", "request", r)})
              /\ Intercepted(f.headers, getAuthData(storage).value, r)]_vars

\* A request that came with a lowercase header of the caller's own was sent
\* with the same value in both headers, while a token is stored
C23_Witness ==
    /\ last.op = "requestInterceptor"
    /\ HasToken(getAuthData(storage).value)
    /\ Request("api", "request", Headers("Bearer 41aa", "Bearer 41aa")) \in BagToSet(flows)
    /\ Request("api", "interceptor", Headers("", "Bearer 41aa")) \notin BagToSet(flows)
    /\ last.outcome = "Bearer 41aa"

====
